---- MODULE Spec2Model ----
(***************************************************************************)
(* Model of websocket_client.py: one supervisor task (run_client) per      *)
(* roster row, the reporter task (periodic_status), the coordinator (main) *)
(* and the shared list connected_terminals.                                *)
(*                                                                         *)
(* The socket.io transport and the aiohttp session are external: the       *)
(* transport is the environment.  An attempt (sio.connect) either raises   *)
(* or establishes and fires the connect handler; sio.wait blocks until the *)
(* connection drops, which fires the disconnect handler.  The gateway      *)
(* accepting connections is the environment variable gatewayUp.            *)
(*                                                                         *)
(* asyncio: code between two awaits is one atomic step.  task.cancel()     *)
(* marks the task; the task sees CancelledError at the await it is         *)
(* suspended in, and takes no other step before that.  Acquiring the free  *)
(* terminals_lock does not suspend, and no handler awaits while holding    *)
(* it, so each handler body is one step.                                   *)
(***************************************************************************)
EXTENDS Integers, Sequences, FiniteSets, TLC

\* ---- bounds of the model ----
MaxTerminals == 2
MaxTicks == 2

\* ---- program constants ----
MaxAttempts == 3

\* the [mid, tid] pairs a roster row can hold
Identities == {<<1, 1>>, <<1, 2>>}
Slots == 1..MaxTerminals

RECURSIVE SeqsUpTo(_)
SeqsUpTo(n) ==
    IF n = 0 THEN {<<>>}
    ELSE SeqsUpTo(n - 1) \cup [1..n -> Identities]

VARIABLES
    token,                \* TRUE iff os.getenv("TOKEN") is non-empty
    roster,               \* terminals: the rows of terminals.csv
    mainPc,               \* "start", "exit", "gather1", "gather2", "done"
    gatherCancel,         \* the first gather has been cancelled (signal)
    results,              \* outcomes collected by the second gather
    pc,                   \* per supervisor: where run_client is suspended
    attempt,              \* per supervisor: loop variable of range(3)
    connected,            \* per supervisor: self.connected
    session,              \* per supervisor: self.session, "none"/"open"/"closed"
    cancelReq,            \* per supervisor: task.cancel() has been called
    outcome,              \* per supervisor: "none", "returned", "cancelled", "error"
    script,               \* per supervisor: attempts the transport stub still fails
    statusPc,             \* reporter: "unborn", "sleep", "done"
    statusCancelReq,      \* reporter: task.cancel() has been called
    connected_terminals,  \* the shared list
    gatewayUp,            \* environment: the gateway accepts connections
    errorLog,             \* positions in all_tasks that line 177 logged as failed
    lockHolders,          \* the tasks inside async with terminals_lock
    metered,              \* the run records sleeping time and status lines (measuring runs only)
    slept,                \* per supervisor: time slept since its last attempt ended
    statusLines,          \* reporter: STATUS lines logged (lines 128-132)
    statusSlept           \* reporter: time slept in completed sleeps of line 125

vars == <<token, roster, mainPc, gatherCancel, results, pc, attempt, connected,
          session, cancelReq, outcome, script, statusPc,
          statusCancelReq, connected_terminals, gatewayUp,
          errorLog,
          lockHolders,
          metered, slept, statusLines, statusSlept>>

Tasks == 1..Len(roster)
Ident(t) == roster[t]

\* ---- list operations of the handlers ----
Contains(s, x) == \E i \in 1..Len(s) : s[i] = x

Count(s, x) == Cardinality({i \in 1..Len(s) : s[i] = x})

FirstIndex(s, x) == CHOOSE i \in 1..Len(s) : s[i] = x /\ \A j \in 1..(i - 1) : s[j] # x

\* list.remove(x): deletes the first occurrence
ListRemove(s, x) ==
    LET k == FirstIndex(s, x)
    IN  [i \in 1..(Len(s) - 1) |-> IF i < k THEN s[i] ELSE s[i + 1]]

\* asyncio.sleep(5), line 100
InnerBackoff == 5

\* asyncio.sleep(5), line 111
OuterBackoff == 5

\* asyncio.sleep(5), line 118
ErrorBackoff == 5

\* asyncio.sleep(25), line 125
StatusPeriod == 25

\* variant: the sleep returns at once
MeasureNothing(x, d) == x

\* a completed asyncio.sleep(d), or d lines logged, added to the measure x
\* (recorded in measuring runs only)
Measure(x, d) == IF metered THEN x + d ELSE x

\* variant: a last snapshot is logged when the reporter is cancelled
LinesAfterCancelFinal(n) == n + 1

\* lines 133-134: on CancelledError only "Status monitoring stopped" is
\* logged, no STATUS line
LinesAfterCancel(n) == n

\* the reporter's place in all_tasks (line 160); supervisor t is at place t
Reporter == 0

\* variant: the lock is still held when the handler gives up control
ExitLockKeep(h, who) == h \cup {who}

\* async with terminals_lock: acquire on entry, release on exit.  Acquiring
\* a free asyncio.Lock does not suspend, and no await stands between entry
\* and exit, so a handler enters, runs its block and exits in one step.
EnterLock(h, who) == h \cup {who}

ExitLock(h, who) == h \ {who}

\* variant: append without the membership test of line 49
RegistryAddDup(reg, id) == Append(reg, id)

\* connect handler, under terminals_lock
RegistryAdd(reg, id) == IF ~Contains(reg, id) THEN Append(reg, id) ELSE reg

\* variant: pop the last entry instead of removing the pair
RegistryRemoveLast(reg, id) ==
    IF Contains(reg, id) THEN SubSeq(reg, 1, Len(reg) - 1) ELSE reg

\* disconnect handler, under terminals_lock
RegistryRemove(reg, id) == IF Contains(reg, id) THEN ListRemove(reg, id) ELSE reg

\* variant: the finally of line 101 is missing
CloseSessionSkip(ss, t) == ss

\* variant: one ClientSession shared by every client
CloseSessionShared(ss, t) ==
    [u \in DOMAIN ss |-> IF ss[u] = "none" THEN "none" ELSE "closed"]

\* await self.session.close() (line 102): each client owns the session it
\* created at line 34, so closing it touches no other client
CloseSession(ss, t) == [ss EXCEPT ![t] = "closed"]

\* variant: the token is not validated
StartupOKNoToken == roster # <<>>

\* main, lines 138-150: the token is set and the roster has at least one row
\* (a roster that cannot be read, lines 145-147, returns like an empty one)
StartupOK == token /\ roster # <<>>

\* the state at process start, with a transport stub that fails the first
\* n attempts of every supervisor and a gateway that starts in one of ups;
\* m says whether the run is a measuring run
Boot(n, ups, m) ==
    /\ token \in BOOLEAN
    /\ roster \in SeqsUpTo(MaxTerminals)
    /\ mainPc = "start"
    /\ gatherCancel = FALSE
    /\ results = <<>>
    /\ pc = [t \in Slots |-> "unborn"]
    /\ attempt = [t \in Slots |-> 0]
    /\ connected = [t \in Slots |-> FALSE]
    /\ session = [t \in Slots |-> "none"]
    /\ cancelReq = [t \in Slots |-> FALSE]
    /\ outcome = [t \in Slots |-> "none"]
    /\ script = [t \in Slots |-> n]
    /\ statusPc = "unborn"
    /\ statusCancelReq = FALSE
    /\ connected_terminals = <<>>
    /\ gatewayUp \in ups
    /\ errorLog = {}
    /\ lockHolders = {}
    /\ metered = m
    /\ slept = [t \in Slots |-> 0]
    /\ statusLines = 0
    /\ statusSlept = 0

Start(n, ups) == Boot(n, ups, FALSE)

Init == Start(0, BOOLEAN)

\* main, lines 137-163: validation, task creation, first gather.  Every
\* created task runs to its first await before anything else happens:
\* run_client builds its client and suspends in sio.connect (attempt 0),
\* periodic_status suspends in its sleep.
MainStart ==
    /\ mainPc = "start"
    /\ IF ~StartupOK
       THEN /\ mainPc' = "exit"
            /\ UNCHANGED <<pc, session, statusPc>>
       ELSE /\ mainPc' = "gather1"
            /\ pc' = [t \in Slots |-> IF t \in Tasks THEN "connecting" ELSE "unborn"]
            /\ session' = [t \in Slots |-> IF t \in Tasks THEN "open" ELSE "none"]
            /\ statusPc' = "sleep"
    /\ UNCHANGED <<token, roster, gatherCancel, results, attempt, connected,
                   cancelReq, outcome, script, statusCancelReq,
                   connected_terminals, gatewayUp,
                   errorLog,
                   lockHolders,
                   metered, slept, statusLines, statusSlept>>

\* ---- the supervisor: TerminalSocketIOClient.connect inside run_client ----

Running(t) == t \in Tasks /\ ~cancelReq[t]

\* the outcome of sio.connect (line 95).  The attempt can establish when the
\* stub has no refusal left and the gateway accepts; it can raise when the
\* stub refuses, the gateway refuses, or the client's session has already
\* been closed by an earlier connect() call (line 102): on a closed session
\* the outcome belongs to the transport, which may raise or still establish.
Accepts(t) == script[t] = 0 /\ gatewayUp

Refuses(t) == script[t] > 0 \/ ~gatewayUp \/ session[t] = "closed"

\* the stub's refusals left after one more attempt
Used(n) == IF n > 0 THEN n - 1 ELSE 0

\* line 95 succeeds: the transport fires the connect handler (lines 45-53),
\* then the task blocks in sio.wait (line 96)
ConnectOK(t) ==
    /\ Running(t)
    /\ pc[t] = "connecting"
    /\ Accepts(t)
    /\ pc' = [pc EXCEPT ![t] = "waiting"]
    /\ slept' = [slept EXCEPT ![t] = 0]
    /\ connected' = [connected EXCEPT ![t] = TRUE]
    /\ lockHolders = {}
    /\ connected_terminals' = RegistryAdd(connected_terminals, Ident(t))
    /\ lockHolders' = ExitLock(EnterLock(lockHolders, t), t)
    /\ UNCHANGED <<token, roster, mainPc, gatherCancel, results, attempt,
                   session, cancelReq, outcome, script, statusPc,
                   statusCancelReq, gatewayUp,
                   errorLog,
                   metered, statusLines, statusSlept>>

\* line 95 raises: caught at line 98, logged, sleep(5) at line 100
ConnectFail(t) ==
    /\ Running(t)
    /\ pc[t] = "connecting"
    /\ Refuses(t)
    /\ pc' = [pc EXCEPT ![t] = "inner_sleep"]
    /\ slept' = [slept EXCEPT ![t] = 0]
    /\ script' = [script EXCEPT ![t] = Used(script[t])]
    /\ UNCHANGED <<token, roster, mainPc, gatherCancel, results, attempt,
                   connected, session, cancelReq, outcome, statusPc,
                   statusCancelReq, connected_terminals, gatewayUp,
                   errorLog,
                   lockHolders,
                   metered, statusLines, statusSlept>>

\* line 95 raises and the handler of lines 98-100 raises in turn: the finally
\* of line 101 closes the session, run_client catches at line 115 and sleeps
\* at line 118
ConnectError(t) ==
    /\ Running(t)
    /\ pc[t] = "connecting"
    /\ Refuses(t)
    /\ pc' = [pc EXCEPT ![t] = "err_sleep"]
    /\ slept' = [slept EXCEPT ![t] = 0]
    /\ attempt' = [attempt EXCEPT ![t] = 0]
    /\ session' = CloseSession(session, t)
    /\ script' = [script EXCEPT ![t] = Used(script[t])]
    /\ UNCHANGED <<token, roster, mainPc, gatherCancel, results,
                   connected, cancelReq, outcome, statusPc,
                   statusCancelReq, connected_terminals, gatewayUp,
                   errorLog,
                   lockHolders,
                   metered, statusLines, statusSlept>>

\* for attempt in range(3): is there an iteration after iteration a
MoreAttempts(a) == a + 1 < MaxAttempts

\* variant: run_client returns after connect() instead of looping
AfterConnectReturn == "done"

\* run_client, lines 109-111: connect() has returned, the while True loop
\* sleeps and goes round again
AfterConnect == "outer_sleep"

\* the sleep of line 100 ends: next iteration of range(3), or the loop is
\* exhausted, the finally closes the session, and run_client sleeps (line 111)
InnerSleepDone(t) ==
    /\ Running(t)
    /\ pc[t] = "inner_sleep"
    /\ slept' = [slept EXCEPT ![t] = Measure(slept[t], InnerBackoff)]
    /\ IF MoreAttempts(attempt[t])
       THEN /\ attempt' = [attempt EXCEPT ![t] = attempt[t] + 1]
            /\ pc' = [pc EXCEPT ![t] = "connecting"]
            /\ UNCHANGED session
       ELSE /\ pc' = [pc EXCEPT ![t] = AfterConnect]
            /\ session' = CloseSession(session, t)
            /\ attempt' = [attempt EXCEPT ![t] = 0]
    /\ UNCHANGED <<token, roster, mainPc, gatherCancel, results, connected,
                   cancelReq, outcome, script, statusPc,
                   statusCancelReq, connected_terminals, gatewayUp,
                   errorLog,
                   lockHolders,
                   metered, statusLines, statusSlept>>

\* the established connection drops: the transport fires the disconnect
\* handler (lines 56-64), sio.wait returns, break (line 97), the finally
\* closes the session, run_client sleeps at line 111
Drop(t) ==
    /\ Running(t)
    /\ pc[t] = "waiting"
    /\ connected' = [connected EXCEPT ![t] = FALSE]
    /\ lockHolders = {}
    /\ connected_terminals' = RegistryRemove(connected_terminals, Ident(t))
    /\ lockHolders' = ExitLock(EnterLock(lockHolders, t), t)
    /\ pc' = [pc EXCEPT ![t] = AfterConnect]
    /\ slept' = [slept EXCEPT ![t] = 0]
    /\ attempt' = [attempt EXCEPT ![t] = 0]
    /\ session' = CloseSession(session, t)
    /\ UNCHANGED <<token, roster, mainPc, gatherCancel, results,
                   cancelReq, outcome, script, statusPc, statusCancelReq,
                   gatewayUp,
                   errorLog,
                   metered, statusLines, statusSlept>>

\* the transport delivers a ping or a pong on the established connection:
\* the handler (lines 74-86) logs the registry under the lock
Ping(t) ==
    /\ Running(t)
    /\ pc[t] = "waiting"
    /\ lockHolders = {}
    /\ lockHolders' = ExitLock(EnterLock(lockHolders, t), t)
    /\ UNCHANGED <<token, roster, mainPc, gatherCancel, results, pc, attempt,
                   connected, session, cancelReq, outcome, script, statusPc,
                   statusCancelReq, connected_terminals, gatewayUp,
                   errorLog,
                   metered, slept, statusLines, statusSlept>>

\* the sleep of line 111 or of line 118 ends: while True calls connect()
\* again (the loop variable is dead once connect() is left, so attempt is
\* kept at 0 outside connect())
OuterSleepDone(t) ==
    /\ Running(t)
    /\ pc[t] \in {"outer_sleep", "err_sleep"}
    /\ pc' = [pc EXCEPT ![t] = "connecting"]
    /\ slept' = [slept EXCEPT ![t] =
                    Measure(slept[t], IF pc[t] = "outer_sleep" THEN OuterBackoff
                                      ELSE ErrorBackoff)]
    /\ attempt' = [attempt EXCEPT ![t] = 0]
    /\ UNCHANGED <<token, roster, mainPc, gatherCancel, results, connected,
                   session, cancelReq, outcome, script, statusPc,
                   statusCancelReq, connected_terminals, gatewayUp,
                   errorLog,
                   lockHolders,
                   metered, statusLines, statusSlept>>

\* variant: the cancellation is swallowed and the supervisor stays suspended
AfterCancelStay(p) == p

\* variant: a cancelled sleep is treated like an expired one
AfterCancelRetry(p) ==
    IF p \in {"inner_sleep", "outer_sleep"} THEN "connecting" ELSE "done"

\* where CancelledError leaves a supervisor suspended at p: out of the loop
\* (break at line 114, or the error leaving run_client from line 118)
AfterCancel(p) == "done"

\* variant: the second gather returns with the first task that is done
CollectableEarly == statusPc = "done"

\* CancelledError is raised at the await the supervisor is suspended in.
\* Inside connect() (lines 95, 96, 100) it is not an Exception: the finally
\* closes the session and line 112 catches it; at line 111 line 112 catches
\* it; at line 118 (inside the except clause) nothing catches it and the
\* task ends cancelled.  No code of the program disconnects the transport:
\* whether an established transport still fires the disconnect handler when
\* torn down is the transport's choice (fired).
CancelSupervisor(t) ==
    /\ t \in Tasks
    /\ cancelReq[t]
    /\ pc[t] \in {"connecting", "waiting", "inner_sleep", "outer_sleep", "err_sleep"}
    /\ pc' = [pc EXCEPT ![t] = AfterCancel(pc[t])]
    /\ slept' = [slept EXCEPT ![t] = 0]
    /\ outcome' = [outcome EXCEPT ![t] =
                      IF pc[t] = "err_sleep" THEN "cancelled" ELSE "returned"]
    /\ session' = IF pc[t] \in {"connecting", "waiting", "inner_sleep"}
                  THEN CloseSession(session, t)
                  ELSE session
    /\ attempt' = [attempt EXCEPT ![t] = 0]
    /\ \E fired \in BOOLEAN :
          IF pc[t] = "waiting" /\ fired
          THEN /\ connected' = [connected EXCEPT ![t] = FALSE]
               /\ lockHolders = {}
               /\ connected_terminals' = RegistryRemove(connected_terminals, Ident(t))
               /\ lockHolders' = ExitLock(EnterLock(lockHolders, t), t)
          ELSE UNCHANGED <<connected, connected_terminals, lockHolders>>
    /\ UNCHANGED <<token, roster, mainPc, gatherCancel, results,
                   cancelReq, script, statusPc, statusCancelReq,
                   gatewayUp,
                   errorLog,
                   metered, statusLines, statusSlept>>

\* ---- the reporter: periodic_status ----

\* the sleep of line 125 ends, the snapshot is logged under the lock: the
\* tick reads connected_terminals and changes nothing but the measures (a
\* measuring run stops counting at MaxTicks lines)
StatusTick ==
    /\ statusPc = "sleep"
    /\ ~statusCancelReq
    /\ metered => statusLines < MaxTicks
    /\ statusSlept' = Measure(statusSlept, StatusPeriod)
    /\ statusLines' = Measure(statusLines, 1)
    /\ lockHolders = {}
    /\ lockHolders' = ExitLock(EnterLock(lockHolders, Reporter), Reporter)
    /\ UNCHANGED <<token, roster, mainPc, gatherCancel, results, pc, attempt,
                   connected, session, cancelReq, outcome, script, statusPc,
                   statusCancelReq, connected_terminals, gatewayUp,
                   errorLog,
                   metered, slept>>

\* CancelledError in the sleep of line 125, caught at line 133: normal return
CancelStatus ==
    /\ statusPc = "sleep"
    /\ statusCancelReq
    /\ statusPc' = "done"
    /\ statusLines' = LinesAfterCancel(statusLines)
    /\ UNCHANGED <<token, roster, mainPc, gatherCancel, results, pc, attempt,
                   connected, session, cancelReq, outcome, script,
                   statusCancelReq, connected_terminals, gatewayUp,
                   errorLog,
                   lockHolders,
                   metered, slept, statusSlept>>

\* ---- the coordinator: main ----

AllDone == statusPc = "done" /\ \A t \in Tasks : pc[t] = "done"

\* the termination signal cancels main, which is suspended in the gather of
\* line 163; cancelling a gather cancels each of its children
Signal ==
    /\ mainPc = "gather1"
    /\ ~gatherCancel
    /\ gatherCancel' = TRUE
    /\ cancelReq' = [t \in Slots |-> t \in Tasks]
    /\ statusCancelReq' = TRUE
    /\ UNCHANGED <<token, roster, mainPc, results, pc, attempt, connected,
                   session, outcome, script, statusPc,
                   connected_terminals, gatewayUp,
                   errorLog,
                   lockHolders,
                   metered, slept, statusLines, statusSlept>>

\* the gather of line 163 raises CancelledError: as soon as one child ends
\* cancelled, or once every child has ended after the gather was cancelled.
\* Lines 164-169: every task that is not done is cancelled; line 172 waits.
MainShutdown ==
    /\ mainPc = "gather1"
    /\ \/ \E t \in Tasks : outcome[t] = "cancelled"
       \/ gatherCancel /\ AllDone
    /\ cancelReq' = [t \in Slots |->
                        IF t \in Tasks /\ pc[t] # "done" THEN TRUE ELSE cancelReq[t]]
    /\ statusCancelReq' = IF statusPc # "done" THEN TRUE ELSE statusCancelReq
    /\ mainPc' = "gather2"
    /\ UNCHANGED <<token, roster, gatherCancel, results, pc, attempt, connected,
                   session, outcome, script, statusPc,
                   connected_terminals, gatewayUp,
                   errorLog,
                   lockHolders,
                   metered, slept, statusLines, statusSlept>>

\* asyncio.gather(*all_tasks, return_exceptions=True), line 172: returns
\* once every task is done
Collectable == AllDone

\* variant: every outcome that is not a normal return is reported
IsErrorAny(o) == o \in {"error", "cancelled"}

\* line 176: isinstance(result, Exception) and not isinstance(result,
\* asyncio.CancelledError)
IsError(o) == o = "error"

\* lines 175-177: enumerate(results), one error line per failed task
LoggedErrors(res) == {i \in 1..Len(res) : IsError(res[i])}

\* line 172 returns once every task is done, with one outcome per task in
\* the order of all_tasks (the reporter first, it always returns normally);
\* lines 175-179 log and main returns
MainCollect ==
    /\ mainPc = "gather2"
    /\ Collectable
    /\ results' = <<"returned">> \o [t \in Tasks |-> outcome[t]]
    /\ errorLog' = LoggedErrors(results')
    /\ mainPc' = "done"
    /\ UNCHANGED <<token, roster, gatherCancel, pc, attempt, connected, session,
                   cancelReq, outcome, script, statusPc,
                   statusCancelReq, connected_terminals, gatewayUp,
                   lockHolders,
                   metered, slept, statusLines, statusSlept>>

\* ---- the environment ----

\* the gateway starts or stops accepting connections (once every task is
\* cancelled no attempt resolves any more, and the gateway is not observed)
GatewayFlip ==
    /\ mainPc = "gather1"
    /\ ~gatherCancel
    /\ gatewayUp' = ~gatewayUp
    /\ UNCHANGED <<token, roster, mainPc, gatherCancel, results, pc, attempt,
                   connected, session, cancelReq, outcome, script,
                   statusPc, statusCancelReq, connected_terminals,
                   errorLog,
                   lockHolders,
                   metered, slept, statusLines, statusSlept>>

SupervisorStep(t) ==
    \/ ConnectOK(t)
    \/ ConnectFail(t)
    \/ ConnectError(t)
    \/ InnerSleepDone(t)
    \/ Ping(t)
    \/ Drop(t)
    \/ OuterSleepDone(t)
    \/ CancelSupervisor(t)

Next ==
    \/ MainStart
    \/ \E t \in Slots : SupervisorStep(t)
    \/ StatusTick
    \/ CancelStatus
    \/ Signal
    \/ MainShutdown
    \/ MainCollect
    \/ GatewayFlip

Spec == Init /\ [][Next]_vars

\* The event loop runs every task that can run: timers expire, an attempt
\* resolves one way or the other, a cancellation is delivered.  The signal
\* and the gateway are not scheduled by the program.
Fairness ==
    /\ WF_vars(MainStart)
    /\ WF_vars(MainShutdown)
    /\ WF_vars(MainCollect)
    /\ WF_vars(CancelStatus)
    /\ \A t \in Slots : WF_vars(SupervisorStep(t))

FairSpec == Spec /\ Fairness

TypeOK ==
    /\ mainPc \in {"start", "exit", "gather1", "gather2", "done"}
    /\ \A t \in Slots :
          /\ pc[t] \in {"unborn", "connecting", "waiting", "inner_sleep",
                        "outer_sleep", "err_sleep", "done"}
          /\ attempt[t] \in 0..(MaxAttempts - 1)
          /\ session[t] \in {"none", "open", "closed"}
          /\ outcome[t] \in {"none", "returned", "cancelled", "error"}
          /\ script[t] \in 0..MaxAttempts
    /\ lockHolders \subseteq Tasks \cup {Reporter}
    /\ metered \in BOOLEAN
    /\ \A t \in Slots : slept[t] \in {0, InnerBackoff, InnerBackoff + OuterBackoff}
    /\ statusLines \in 0..MaxTicks
    /\ statusSlept \in 0..(MaxTicks * StatusPeriod)

\* ---- specifications with a transport stub ----

\* the stub refuses every attempt, nobody sends a signal
NextDown ==
    \/ MainStart
    \/ \E t \in Slots : ConnectFail(t) \/ ConnectError(t) \/ InnerSleepDone(t)
                           \/ OuterSleepDone(t)
    \/ StatusTick

SpecDown == Start(0, {FALSE}) /\ [][NextDown]_vars /\ Fairness

\* the stub makes sio.connect raise in the first MaxAttempts - 1 attempts of
\* every supervisor (nothing else raises); the gateway accepts throughout
NextStub ==
    \/ MainStart
    \/ \E t \in Slots : ConnectOK(t) \/ ConnectFail(t) \/ InnerSleepDone(t)
                           \/ Ping(t) \/ Drop(t) \/ OuterSleepDone(t)
                           \/ CancelSupervisor(t)
    \/ StatusTick
    \/ CancelStatus
    \/ Signal
    \/ MainShutdown
    \/ MainCollect

SpecStub == Start(MaxAttempts - 1, {TRUE}) /\ [][NextStub]_vars /\ Fairness

\* ---- measuring runs ----

\* the transport makes sio.connect raise in every attempt (nothing else
\* raises) and nobody sends a signal; the sleeps are measured
NextCadence ==
    \/ MainStart
    \/ \E t \in Slots : ConnectFail(t) \/ InnerSleepDone(t) \/ OuterSleepDone(t)
    \/ StatusTick

SpecCadence == Boot(0, {FALSE}, TRUE) /\ [][NextCadence]_vars /\ Fairness

\* the gateway accepts and keeps every connection; the reporter is measured
\* until the signal ends the run
NextReporter ==
    \/ MainStart
    \/ \E t \in Slots : ConnectOK(t) \/ Ping(t) \/ CancelSupervisor(t)
    \/ StatusTick
    \/ CancelStatus
    \/ Signal
    \/ MainShutdown
    \/ MainCollect

SpecReporter == Boot(0, {TRUE}, TRUE) /\ [][NextReporter]_vars /\ Fairness

\* ---- the second phase of shutdown on its own ----

\* main has entered its exception handler and waits in the gather of line
\* 172: every task has been cancelled (lines 168-169) and is either done or
\* still suspended in a sleep of run_client.  A task that is done has
\* returned (line 114), ended cancelled (line 118), or ended with the error
\* its client constructor raised (line 106, outside the try of run_client:
\* no session exists then).
Phase2 ==
    /\ token = TRUE
    /\ roster \in SeqsUpTo(MaxTerminals) \ {<<>>}
    /\ mainPc = "gather2"
    /\ gatherCancel = TRUE
    /\ results = <<>>
    /\ pc \in [Slots -> {"unborn", "outer_sleep", "err_sleep", "done"}]
    /\ \A t \in Slots : pc[t] = "unborn" <=> t \notin Tasks
    /\ attempt = [t \in Slots |-> 0]
    /\ connected = [t \in Slots |-> FALSE]
    /\ outcome \in [Slots -> {"none", "returned", "cancelled", "error"}]
    /\ \A t \in Slots : outcome[t] = "none" <=> pc[t] # "done"
    /\ session = [t \in Slots |->
                     IF t \notin Tasks \/ outcome[t] = "error" THEN "none"
                     ELSE "closed"]
    /\ cancelReq = [t \in Slots |-> t \in Tasks]
    /\ script = [t \in Slots |-> 0]
    /\ statusPc \in {"sleep", "done"}
    /\ statusCancelReq = TRUE
    /\ connected_terminals = <<>>
    /\ gatewayUp = TRUE
    /\ errorLog = {}
    /\ lockHolders = {}
    /\ metered = FALSE
    /\ slept = [t \in Slots |-> 0]
    /\ statusLines = 0
    /\ statusSlept = 0

NextCollect ==
    \/ \E t \in Slots : CancelSupervisor(t)
    \/ CancelStatus
    \/ MainCollect

SpecCollect == Phase2 /\ [][NextCollect]_vars

\* ---- the claims ----

Connected(t) ==
    t \in Tasks /\ pc[t] = "waiting" /\ Contains(connected_terminals, Ident(t))

C2_RegistryEmptyAfterShutdown ==
    mainPc = "done" => connected_terminals = <<>>

\* C3: shutdown is reported complete only when every supervisor task and
\* the reporter task has terminated and its outcome has been collected.
C3_CompleteOnlyWhenCollected ==
    mainPc = "done" =>
        /\ statusPc = "done"
        /\ \A t \in Tasks : pc[t] = "done" /\ outcome[t] # "none"
        /\ Len(results) = Len(roster) + 1
        /\ \A t \in Tasks : results[t + 1] = outcome[t]

C3_Witness ==
    /\ mainPc = "done"
    /\ Len(roster) = 2
    /\ \E t \in Tasks : outcome[t] = "cancelled"
    /\ \E t \in Tasks : outcome[t] = "returned"

\* C4: after the termination signal every supervisor task and the reporter
\* task eventually terminates and the coordinator reaches shutdown-complete.
C4_ShutdownTerminates ==
    gatherCancel ~> (mainPc = "done" /\ AllDone)

C4_Witness ==
    /\ gatherCancel
    /\ mainPc = "done"
    /\ AllDone
    /\ Len(roster) = 2

Suspended == {"connecting", "waiting", "inner_sleep", "outer_sleep", "err_sleep"}

\* C5: a supervisor to which a cancellation has been delivered while it is
\* suspended starts no further attempt: its next step leaves the loop with a
\* non-error outcome, and a terminated supervisor stays terminated.
C5_NoAttemptAfterCancel ==
    [][\A t \in Slots :
          /\ (cancelReq[t] /\ pc[t] \in Suspended) =>
                /\ pc'[t] \in {pc[t], "done"}
                /\ pc'[t] = "done" => outcome'[t] \in {"returned", "cancelled"}
          /\ pc[t] = "done" => pc'[t] = "done"]_vars

C5_Witness ==
    \E t, u \in Tasks :
        /\ pc[t] = "done" /\ outcome[t] = "returned" /\ session[t] = "closed"
        /\ pc[u] = "done" /\ outcome[u] = "cancelled"

\* C6: a supervisor that has not been cancelled is never terminated.
C6_OnlyCancellationTerminates ==
    \A t \in Slots : pc[t] = "done" => cancelReq[t]

C6_Witness ==
    \E t, u \in Tasks :
        /\ ~cancelReq[t]
        /\ pc[t] = "err_sleep"
        /\ pc[u] = "outer_sleep"
        /\ ~cancelReq[u]

\* C7: against a transport that refuses every attempt, with no
\* cancellation, no supervisor ever terminates, every supervisor makes
\* attempt after attempt for ever, and the registry stays empty.
C7_RetriesForever ==
    /\ [](connected_terminals = <<>> /\ \A t \in Slots : pc[t] # "done")
    /\ \A t \in Slots :
          /\ []<>(mainPc = "exit" \/ t \notin Tasks \/ pc[t] = "connecting")
          /\ []<>(mainPc = "exit" \/ t \notin Tasks \/ pc[t] # "connecting")

C7_Witness ==
    \E t \in Tasks :
        /\ pc[t] = "connecting"
        /\ attempt[t] = 2
        /\ session[t] = "closed"
        /\ connected_terminals = <<>>

\* C8: against a transport that refuses a supervisor's first two attempts
\* and accepts the third, the supervisor (unless cancelled first) becomes
\* Connected, its first connection is the third attempt of the first
\* connect() call, and while it is connected the registry holds its identity
\* exactly once.
C8_ThirdAttemptConnects ==
    /\ [](\A t \in Tasks :
             pc[t] = "waiting" =>
                /\ Count(connected_terminals, Ident(t)) = 1
                /\ session[t] = "open" => attempt[t] = 2)
    /\ \A t \in Slots :
          <>(\/ mainPc = "exit"
             \/ t \notin Tasks
             \/ cancelReq[t]
             \/ pc[t] = "waiting" /\ session[t] = "open" /\ attempt[t] = 2)

C8_Witness ==
    \E t \in Tasks :
        /\ pc[t] = "waiting"
        /\ attempt[t] = 2
        /\ session[t] = "open"
        /\ script[t] = 0
        /\ Count(connected_terminals, Ident(t)) = 1

\* C9: the registry never holds two entries with the same identity, and a
\* connect handler that runs for an identity already present leaves the
\* registry unchanged.
C9_NoDuplicates ==
    /\ [](\A id \in Identities : Count(connected_terminals, id) <= 1)
    /\ [][\A t \in Tasks :
             (~connected[t] /\ connected'[t] /\ Contains(connected_terminals, Ident(t)))
                => connected_terminals' = connected_terminals]_vars

C9_Witness ==
    \E t, u \in Tasks :
        /\ t # u
        /\ Ident(t) = Ident(u)
        /\ pc[t] = "waiting"
        /\ pc[u] = "waiting"
        /\ connected_terminals = <<Ident(t)>>

\* C10: a disconnect handler run for identity X leaves X absent, leaves the
\* registry unchanged when X was absent, and neither handler changes the
\* membership of any other identity.
C10_RemoveSemantics ==
    [][\A t \in Tasks :
          /\ (connected[t] /\ ~connected'[t]) =>
                /\ ~Contains(connected_terminals', Ident(t))
                /\ ~Contains(connected_terminals, Ident(t))
                      => connected_terminals' = connected_terminals
          /\ (connected[t] # connected'[t]) =>
                \A id \in Identities \ {Ident(t)} :
                    Contains(connected_terminals', id) = Contains(connected_terminals, id)]_vars

C10_Witness ==
    \E t, u \in Tasks :
        /\ t # u
        /\ Ident(t) = Ident(u)
        /\ pc[u] = "waiting"
        /\ connected[u]
        /\ ~connected[t]
        /\ ~Contains(connected_terminals, Ident(t))

\* C11: between handlers (every state of the model: a handler runs to its
\* end without suspending), an identity is in the registry exactly when the
\* supervisor of that identity has its connected flag set.
C11_RegistryMatchesFlags ==
    \A id \in Identities :
        Contains(connected_terminals, id) <=>
            \E t \in Tasks : Ident(t) = id /\ connected[t]

\* C12: a supervisor task that has terminated, wherever the cancellation
\* reached it, has closed its session.
C12_SessionClosedWhenTerminated ==
    \A t \in Slots : pc[t] = "done" => session[t] = "closed"

\* one supervisor ended cancelled in the outer error backoff, another one
\* returned after a cancellation that reached it while connected
C12_Witness ==
    \E t, u \in Tasks :
        /\ pc[t] = "done" /\ outcome[t] = "cancelled"
        /\ pc[u] = "done" /\ outcome[u] = "returned" /\ connected[u]

\* C13: without a token or without a roster row the coordinator returns
\* having created no task: no supervisor and no reporter ever exists, no
\* session is created, no connected flag and no registry entry is ever set.
C13_FailFast ==
    (~token \/ roster = <<>>) =>
        /\ mainPc \in {"start", "exit"}
        /\ statusPc = "unborn"
        /\ connected_terminals = <<>>
        /\ \A t \in Slots :
              pc[t] = "unborn" /\ session[t] = "none" /\ ~connected[t]

C13_Witness == mainPc = "exit" /\ ~token /\ Len(roster) = MaxTerminals

\* the step is a transport or per-terminal error of supervisor t: a failed
\* attempt, an error escaping connect(), a drop of the established
\* connection, or the exhaustion of the attempts
ErrorStepOf(t) ==
    /\ ~cancelReq[t]
    /\ \/ pc[t] = "connecting" /\ pc'[t] \in {"inner_sleep", "err_sleep"}
       \/ pc[t] = "waiting" /\ pc'[t] = "outer_sleep"
       \/ pc[t] = "inner_sleep" /\ pc'[t] = "outer_sleep"

\* C16: a step that is a transport or per-terminal error of one supervisor
\* leaves every other supervisor, the reporter and the coordinator as they
\* were, and the coordinator is and stays in its first gather.
C16_FailureIsolation ==
    [][\A t \in Tasks :
          ErrorStepOf(t) =>
              /\ \A u \in Slots \ {t} :
                    /\ pc'[u] = pc[u]
                    /\ attempt'[u] = attempt[u]
                    /\ connected'[u] = connected[u]
                    /\ session'[u] = session[u]
                    /\ cancelReq'[u] = cancelReq[u]
                    /\ outcome'[u] = outcome[u]
              /\ statusPc' = statusPc
              /\ statusCancelReq' = statusCancelReq
              /\ mainPc = "gather1" /\ mainPc' = "gather1"
              /\ gatherCancel' = gatherCancel
              /\ results' = results]_vars

\* an error has escaped connect() in one supervisor while another one is
\* connected on its open session and the coordinator is in its first gather
C16_Witness ==
    \E t, u \in Tasks :
        /\ pc[t] = "err_sleep" /\ ~cancelReq[t]
        /\ pc[u] = "waiting" /\ session[u] = "open"
        /\ mainPc = "gather1"

\* C19: whenever a supervisor is in a connection attempt its session is open.
C19_AttemptOnOpenSession ==
    \A t \in Slots : pc[t] = "connecting" => session[t] = "open"

\* C20: a supervisor that is connected has its identity in the registry,
\* also when another supervisor has the same identity.
C20_SharedIdentityStaysRegistered ==
    \A t \in Tasks :
        (pc[t] = "waiting" /\ connected[t]) =>
            Contains(connected_terminals, Ident(t))

\* C15: the second gather collects one outcome per task, and the error line
\* of line 177 is logged for exactly the tasks whose outcome is an error
\* that is not a cancellation: not for a cancelled task, not for a task that
\* returned, and for an errored task whatever the other outcomes are.
C15_ErrorsLoggedExactly ==
    mainPc = "done" =>
        /\ Len(results) = Len(roster) + 1
        /\ \A t \in Tasks : results[t + 1] = outcome[t]
        /\ errorLog = {i \in 1..Len(results) : results[i] = "error"}
        /\ \A i \in 1..Len(results) :
              results[i] \in {"cancelled", "returned"} => i \notin errorLog

\* an errored task and a cancelled task have been collected together
C15_Witness ==
    /\ mainPc = "done"
    /\ \E t, u \in Tasks :
          /\ outcome[t] = "error"
          /\ outcome[u] = "cancelled"
          /\ errorLog = {t + 1}

C14_OneLinePerPeriod ==
    /\ [](statusLines * 25 = statusSlept)
    /\ [][(statusPc = "done" \/ statusPc' = "done") =>
              statusLines' = statusLines]_vars

\* the reporter has logged after each of two periods and has been cancelled
C14_Witness ==
    statusPc = "done" /\ statusLines = MaxTicks /\ statusSlept = MaxTicks * 25

\* the supervisor is in an attempt that is not the first one of the run
LaterAttempt(t) ==
    pc[t] = "connecting" /\ ~(session[t] = "open" /\ attempt[t] = 0)

\* C17 (as stated): against a transport that fails every attempt, every
\* attempt after the first starts exactly 5 time-units after the previous
\* one ended, the first attempt of a new connect() call included.
C17_UniformCadence ==
    \A t \in Tasks : LaterAttempt(t) => slept[t] = 5

\* C17 (amended): a retry inside one connect() call starts 5 time-units
\* after the previous attempt ended; the first attempt of the next
\* connect() call starts 10 time-units after the third attempt ended (the
\* sleep of line 100 followed by the sleep of line 111).
C17_CadenceWithDoubleGap ==
    \A t \in Tasks :
        LaterAttempt(t) => slept[t] = (IF attempt[t] > 0 THEN 5 ELSE 10)

\* a supervisor starts the first attempt of its second connect() call while
\* another one starts a retry of its first
C17_Witness ==
    \E t, u \in Tasks :
        /\ pc[t] = "connecting" /\ session[t] = "closed" /\ attempt[t] = 0
        /\ pc[u] = "connecting" /\ session[u] = "open" /\ attempt[u] = 2

====
